---- MODULE Spec2Model ----
(***************************************************************************)
(* Model of cli/generate_rest.py: the script that builds the text of       *)
(* rest_gen.go by string concatenation from the catalog `types` and the    *)
(* list `imports` of the module gotypes, and writes it to ./rest_gen.go.   *)
(* Texts are TLA+ strings; every literal below is the literal of the       *)
(* source, "%s" substitution is written as concatenation.                  *)
(***************************************************************************)
EXTENDS Integers, Sequences, FiniteSets, TLC

VARIABLES types, imports, res, pc, ip, it, fstate, written

vars == <<types, imports, res, pc, ip, it, fstate, written>>

(***************************************************************************)
(* Bounds of the input space.                                              *)
(***************************************************************************)
MaxTypes == 2
MaxImports == 2

\* Import paths the import list is drawn from.
ImportPaths == {"pkgA", "fmt"}

\* Values of the two catalog fields the loop binds to "_".
Extras == {"x", "y"}

\* Catalog entries as gotypes supplies them: 4-field tuples
\* (typ, name, _, _).  Two entries share the name "Int".
Descriptors4 ==
    { <<"int", "Int", "x", "y">>,
      <<"string", "String", "x", "x">>,
      <<"int64", "Int", "y", "x">> }

\* A catalog entry shaped as the data model describes it: two attributes only.
Descriptors2 == { <<"bool", "Bool">> }

Descriptors == Descriptors4 \cup Descriptors2

RECURSIVE SeqsUpTo(_, _)
SeqsUpTo(S, n) ==
    IF n = 0 THEN { <<>> }
    ELSE LET shorter == SeqsUpTo(S, n - 1)
         IN shorter \cup { Append(s, x) : s \in shorter, x \in S }

(***************************************************************************)
(* Text fragments, one operator per group of "res +=" statements.          *)
(***************************************************************************)

\* Lines 5-9: marker comment, package clause, opening of the import block.
HeaderText_PkgFirst ==
    "package cli\n"
    \o "\n"
    \o "// Code generated by generate_rest.py; DO NOT EDIT.\n"
    \o "\n"
    \o "import (\n"

HeaderText ==
    "// Code generated by generate_rest.py; DO NOT EDIT.\n"
    \o "\n"
    \o "package cli\n"
    \o "\n"
    \o "import (\n"

\* Line 11: one import line.
ImportLine(pkg) == "\t\"" \o pkg \o "\"\n"

\* Line 12: end of the import block.
ImportClose == ")\n"

\* Lines 15-17: blank line, section comment, blank line.
SectionText(typ) ==
    "\n"
    \o "// []" \o typ \o "\n"
    \o "\n"

\* Lines 18-25: documentation of Rest<name>sVar.
DocVar(typ, name) ==
    "// Rest" \o name \o "sVar defines the []" \o typ \o " rest arguments with specified name.\n"
    \o "// The argument p points to a []" \o typ \o " variable in which to store values of arguments.\n"
    \o "// The return value will be an error from the register.RegisterRestArgs if it\n"
    \o "// failed to register the rest arguments.\n"
    \o "//\n"
    \o "// A usage may be set by passing a cli.Usage.\n"
    \o "//\n"
    \o "//   _ = cli.Rest" \o name \o "sVar(register, &p, \"names\", cli.Usage(\"Names of users\"))\n"

\* Lines 28-30: definition of Rest<name>sVar.
FuncVar_NoOptions(typ, name) ==
    "func Rest" \o name \o "sVar(register Register, p *[]" \o typ \o ", name string, options ...RestOptionApplyer) error {\n"
    \o "\treturn RestVar(register, new" \o name \o "Values(p), name)\n"
    \o "}\n"

FuncVar_NoPlural(typ, name) ==
    "func Rest" \o name \o "Var(register Register, p *[]" \o typ \o ", name string, options ...RestOptionApplyer) error {\n"
    \o "\treturn RestVar(register, new" \o name \o "Values(p), name, options...)\n"
    \o "}\n"

FuncVar(typ, name) ==
    "func Rest" \o name \o "sVar(register Register, p *[]" \o typ \o ", name string, options ...RestOptionApplyer) error {\n"
    \o "\treturn RestVar(register, new" \o name \o "Values(p), name, options...)\n"
    \o "}\n"

\* Lines 31-37: blank line and documentation of Rest<name>s.
DocConv(typ, name) ==
    "\n"
    \o "// Rest" \o name \o "s defines the []" \o typ \o " rest arguments with specified name.\n"
    \o "// The return value is the address of a []" \o typ \o " variable that stores values of arguments.\n"
    \o "//\n"
    \o "// A usage may be set by passing a cli.Usage.\n"
    \o "//\n"
    \o "//   _ = cli.Rest" \o name \o "s(register, \"names\", cli.Usage(\"Names of users\"))\n"

\* Lines 40-44: definition of Rest<name>s.
FuncConv(typ, name) ==
    "func Rest" \o name \o "s(register Register, name string, options ...RestOptionApplyer) *[]" \o typ \o " {\n"
    \o "\tp := new([]" \o typ \o ")\n"
    \o "\t_ = Rest" \o name \o "sVar(register, p, name, options...)\n"
    \o "\treturn p\n"
    \o "}\n"

\* Lines 14-44: the text one loop iteration appends for the entry d, bound
\* as (typ, name, _, _).
TypeFragment_NoConv(d) ==
    LET typ == d[1]
        name == d[2]
    IN SectionText(typ) \o DocVar(typ, name) \o FuncVar(typ, name)

TypeFragment_ConvFirst(d) ==
    LET typ == d[1]
        name == d[2]
    IN SectionText(typ)
       \o SubSeq(DocConv(typ, name), 2, Len(DocConv(typ, name))) \o FuncConv(typ, name)
       \o "\n" \o DocVar(typ, name) \o FuncVar(typ, name)

TypeFragment_UsesThird(d) ==
    LET typ == d[1]
        name == d[2]
    IN SectionText(typ) \o DocVar(typ, name) \o FuncVar(typ, name)
       \o DocConv(d[3], name) \o FuncConv(typ, name)

TypeFragment(d) ==
    LET typ == d[1]
        name == d[2]
    IN SectionText(typ) \o DocVar(typ, name) \o FuncVar(typ, name)
       \o DocConv(typ, name) \o FuncConv(typ, name)

(***************************************************************************)
(* The script as a state machine.  pc is the position in the module body.  *)
(***************************************************************************)

\* Line 3: gotypes supplies the catalog and the import list; nothing has
\* been accumulated or written yet.
Init ==
    /\ types \in SeqsUpTo(Descriptors, MaxTypes)
    /\ imports \in SeqsUpTo(ImportPaths, MaxImports)
    /\ res = ""
    /\ pc = "header"
    /\ ip = 1
    /\ it = 1
    /\ fstate = "unopened"
    /\ written = <<>>

\* Lines 5-9.
Header ==
    /\ pc = "header"
    /\ res' = HeaderText
    /\ pc' = "imports"
    /\ ip' = 1
    /\ UNCHANGED <<types, imports, it, fstate, written>>

\* Lines 10-11, one iteration.
EmitImport_Dedup ==
    /\ pc = "imports"
    /\ ip <= Len(imports)
    /\ res' = IF \E k \in 1..(ip - 1) : imports[k] = imports[ip]
              THEN res
              ELSE res \o ImportLine(imports[ip])
    /\ ip' = ip + 1
    /\ UNCHANGED <<types, imports, pc, it, fstate, written>>

EmitImport_AnyOrder ==
    /\ pc = "imports"
    /\ ip <= Len(imports)
    /\ \E k \in 1..Len(imports) : res' = res \o ImportLine(imports[k])
    /\ ip' = ip + 1
    /\ UNCHANGED <<types, imports, pc, it, fstate, written>>

EmitImport ==
    /\ pc = "imports"
    /\ ip <= Len(imports)
    /\ res' = res \o ImportLine(imports[ip])
    /\ ip' = ip + 1
    /\ UNCHANGED <<types, imports, pc, it, fstate, written>>

\* Line 12, after the last import.
CloseImports ==
    /\ pc = "imports"
    /\ ip > Len(imports)
    /\ res' = res \o ImportClose
    /\ pc' = "types"
    /\ it' = 1
    /\ UNCHANGED <<types, imports, ip, fstate, written>>

\* Lines 14-44, one iteration on an entry that unpacks into four names.
EmitType_Flush ==
    /\ pc = "types"
    /\ it <= Len(types)
    /\ Len(types[it]) = 4
    /\ res' = res \o TypeFragment(types[it])
    /\ it' = it + 1
    /\ written' = Append(written, res')
    /\ UNCHANGED <<types, imports, pc, ip, fstate>>

EmitType_RejectDuplicate ==
    /\ pc = "types"
    /\ it <= Len(types)
    /\ Len(types[it]) = 4
    /\ IF \E k \in 1..(it - 1) : types[k][2] = types[it][2]
       THEN /\ pc' = "error"
            /\ UNCHANGED <<res, it>>
       ELSE /\ res' = res \o TypeFragment(types[it])
            /\ it' = it + 1
            /\ pc' = pc
    /\ UNCHANGED <<types, imports, ip, fstate, written>>

EmitType ==
    /\ pc = "types"
    /\ it <= Len(types)
    /\ Len(types[it]) = 4
    /\ res' = res \o TypeFragment(types[it])
    /\ it' = it + 1
    /\ UNCHANGED <<types, imports, pc, ip, fstate, written>>

\* Line 14 on an entry that does not have four fields: the tuple unpacking
\* raises ValueError and the script stops.
UnpackError ==
    /\ pc = "types"
    /\ it <= Len(types)
    /\ Len(types[it]) # 4
    /\ pc' = "error"
    /\ UNCHANGED <<types, imports, res, ip, it, fstate, written>>

\* Line 46, after the last catalog entry: rest_gen.go is opened for writing.
OpenFile ==
    /\ pc = "types"
    /\ it > Len(types)
    /\ fstate' = "open"
    /\ pc' = "write"
    /\ UNCHANGED <<types, imports, res, ip, it, written>>

\* Line 47: res is handed to the file, and the with block closes it.
WriteFile ==
    /\ pc = "write"
    /\ written' = Append(written, res)
    /\ fstate' = "closed"
    /\ pc' = "done"
    /\ UNCHANGED <<types, imports, res, ip, it>>

Next ==
    \/ Header
    \/ EmitImport
    \/ CloseImports
    \/ EmitType
    \/ UnpackError
    \/ OpenFile
    \/ WriteFile

Spec == Init /\ [][Next]_vars

\* The interpreter runs the module body statement after statement until it
\* ends or raises.
FairSpec == Spec /\ WF_vars(Next)

(***************************************************************************)
(* Reading a text back: occurrences, lines, function definitions.          *)
(***************************************************************************)

\* Number of positions of t at which the text p occurs.
Count(p, t) ==
    Cardinality({ k \in 1..(Len(t) - Len(p) + 1) : SubSeq(t, k, k + Len(p) - 1) = p })

IsPrefix(a, b) == Len(a) <= Len(b) /\ SubSeq(b, 1, Len(a)) = a

StartsWith(line, p) == IsPrefix(p, line)

RECURSIVE SortedSeq(_)
SortedSeq(S) ==
    IF S = {} THEN <<>>
    ELSE LET m == CHOOSE x \in S : \A y \in S : x <= y
         IN <<m>> \o SortedSeq(S \ {m})

\* The lines of t, each without its terminating newline.
Lines(t) ==
    LET nl == SortedSeq({ k \in 1..Len(t) : SubSeq(t, k, k) = "\n" })
    IN [ j \in 1..Len(nl) |->
           SubSeq(t, IF j = 1 THEN 1 ELSE nl[j - 1] + 1, nl[j] - 1) ]

IsFuncLine(line) == StartsWith(line, "func ")

IsCommentLine(line) == StartsWith(line, "//")

\* The name a function definition line defines: the text between "func " and
\* the first opening parenthesis.
FuncName(line) ==
    LET paren == CHOOSE k \in 6..Len(line) :
                    /\ SubSeq(line, k, k) = "("
                    /\ \A j \in 6..(k - 1) : SubSeq(line, j, j) # "("
    IN SubSeq(line, 6, paren - 1)

\* The names defined by t, in the order of their definitions.
FuncNames(t) ==
    LET defs == SelectSeq(Lines(t), IsFuncLine)
    IN [ k \in 1..Len(defs) |-> FuncName(defs[k]) ]

\* Indices of L holding a function definition line.
FuncLineIdx(L) == { j \in 1..Len(L) : IsFuncLine(L[j]) }

\* The catalog entries the loop has already gone through.
Processed ==
    IF pc \in {"header", "imports"} THEN <<>> ELSE SubSeq(types, 1, it - 1)

\* The run has gone through the whole catalog.
Finished == pc \in {"write", "done"}

NameVar(d) == "Rest" \o d[2] \o "sVar"

NameConv(d) == "Rest" \o d[2] \o "s"

\* The function names a catalog calls for, pair after pair in catalog order.
ExpectedNames(cat) ==
    [ k \in 1..(2 * Len(cat)) |->
        IF k % 2 = 1 THEN NameVar(cat[(k + 1) \div 2]) ELSE NameConv(cat[k \div 2]) ]

Occurrences(x, seq) == Cardinality({ k \in 1..Len(seq) : seq[k] = x })

(***************************************************************************)
(* C1 - completeness.                                                      *)
(***************************************************************************)

\* C1: the text holds exactly two function definition lines per catalog
\* entry gone through, hence 2 * |catalog| once the pass is over: for every
\* entry, Rest<N>sVar and Rest<N>s are each defined as many times as the
\* catalog has entries named N; with the empty catalog the text is the five
\* header lines, the import lines and the closing line, with no function.
C1_Completeness ==
    LET names == FuncNames(res)
    IN /\ Len(names) = 2 * Len(Processed)
       /\ Finished =>
            /\ Len(names) = 2 * Len(types)
            /\ \A k \in 1..Len(types) :
                 LET same == Cardinality({ j \in 1..Len(types) : types[j][2] = types[k][2] })
                 IN /\ Occurrences(NameVar(types[k]), names) = same
                    /\ Occurrences(NameConv(types[k]), names) = same
            /\ types = <<>> =>
                 /\ Len(Lines(res)) = 6 + Len(imports)
                 /\ Count("func", res) = 0

\* C1 witness: a finished run over two entries, four definitions written.
C1_Witness == pc = "done" /\ Len(types) = 2 /\ Len(FuncNames(written[1])) = 4

(***************************************************************************)
(* C2 - order preservation.                                                *)
(***************************************************************************)

\* C2: the function definitions of the text are, in order, those of the
\* catalog entries gone through in catalog order, Rest<N>sVar before Rest<N>s
\* within each entry: the definitions of entry i all come before those of
\* any later entry j.
C2_OrderPreserved == FuncNames(res) = ExpectedNames(Processed)

\* C2 witness: a finished run over two entries with different names.
C2_Witness ==
    /\ pc = "done"
    /\ Len(types) = 2
    /\ types[1][2] # types[2][2]
    /\ FuncNames(res)[1] = NameVar(types[1])
    /\ FuncNames(res)[4] = NameConv(types[2])

(***************************************************************************)
(* C3 - import pass-through.                                               *)
(***************************************************************************)

\* The lines of t between the line "import (" and the first line ")" after it.
ImportBlock(t) ==
    LET L == Lines(t)
        open == CHOOSE k \in 1..Len(L) : L[k] = "import ("
        close == CHOOSE k \in (open + 1)..Len(L) :
                    /\ L[k] = ")"
                    /\ \A j \in (open + 1)..(k - 1) : L[j] # ")"
    IN SubSeq(L, open + 1, close - 1)

Quoted(pkg) == "\t\"" \o pkg \o "\""

\* C3: once the import block is closed it lists the import list line by
\* line in input order, an entry occurring k times in the list occurring k
\* times in the block, and holds no other line.
C3_ImportPassThrough ==
    pc \notin {"header", "imports"} =>
        LET block == ImportBlock(res)
        IN /\ Len(block) = Len(imports)
           /\ \A k \in 1..Len(imports) : block[k] = Quoted(imports[k])
           /\ \A p \in ImportPaths :
                Occurrences(Quoted(p), block) = Occurrences(p, imports)

\* C3 witness: a finished run whose import list names one path twice.
C3_Witness ==
    /\ pc = "done"
    /\ Len(imports) = 2
    /\ imports[1] = imports[2]
    /\ Occurrences(Quoted(imports[1]), ImportBlock(res)) = 2

(***************************************************************************)
(* C4 - naming derivation.                                                 *)
(***************************************************************************)

IntEntries == { k \in 1..Len(types) : types[k][2] = "Int" }

\* C4 as stated: with an entry named Int in the catalog, the texts
\* RestIntsVar and RestInts each occur exactly once in the output.
C4_Original ==
    (Finished /\ IntEntries # {}) =>
        /\ Count("RestIntsVar", res) = 1
        /\ Count("RestInts", res) = 1

\* C4 amended: RestIntsVar and RestInts are each the name of exactly one
\* function definition per catalog entry named Int, so of exactly one when
\* the name is unique in the catalog; as texts they occur more often than
\* that, in the documentation, the usage examples and the delegating call.
C4_DefinedOncePerEntry ==
    (Finished /\ IntEntries # {}) =>
        /\ Count("\nfunc RestIntsVar(", res) = Cardinality(IntEntries)
        /\ Count("\nfunc RestInts(", res) = Cardinality(IntEntries)
        /\ Occurrences("RestIntsVar", FuncNames(res)) = Cardinality(IntEntries)
        /\ Occurrences("RestInts", FuncNames(res)) = Cardinality(IntEntries)
        /\ Count("RestIntsVar", res) > Cardinality(IntEntries)
        /\ Count("RestInts", res) > Cardinality(IntEntries)

\* C4 witness: a finished run whose catalog has exactly one entry named Int.
C4_Witness ==
    /\ pc = "done"
    /\ Cardinality(IntEntries) = 1
    /\ Count("\nfunc RestIntsVar(", res) = 1
    /\ Count("\nfunc RestInts(", res) = 1

(***************************************************************************)
(* C5 - write-once.                                                        *)
(***************************************************************************)

\* C5: the buffer only grows by appending, so every intermediate value is
\* a prefix of the final one; the file is handed a text at most once, only
\* in the step that ends the run, after the whole catalog has been gone
\* through, and that text is the final buffer; a run that is done has
\* handed over exactly one text.
C5_WriteOnce ==
    /\ [](/\ Len(written) <= 1
          /\ pc = "done" <=> Len(written) = 1
          /\ written # <<>> => /\ written[1] = res
                               /\ it = Len(types) + 1
                               /\ fstate = "closed")
    /\ [][/\ IsPrefix(res, res')
          /\ written' # written =>
               /\ pc = "write"
               /\ pc' = "done"
               /\ it > Len(types)
               /\ res' = res
               /\ written' = <<res>>]_vars

\* C5 witness: a finished run over two entries whose file holds the buffer.
C5_Witness ==
    /\ pc = "done"
    /\ Len(types) = 2
    /\ Len(imports) = 2
    /\ written = <<res>>

(***************************************************************************)
(* C6 - layout of the unit.                                                *)
(***************************************************************************)

\* The output of the script for the catalog [(string, String, _, _)] and the
\* import list [pkgA].
EndToEndText ==
    "// Code generated by generate_rest.py; DO NOT EDIT.\n"
    \o "\n"
    \o "package cli\n"
    \o "\n"
    \o "import (\n"
    \o "\t\"pkgA\"\n"
    \o ")\n"
    \o "\n"
    \o "// []string\n"
    \o "\n"
    \o "// RestStringsVar defines the []string rest arguments with specified name.\n"
    \o "// The argument p points to a []string variable in which to store values of arguments.\n"
    \o "// The return value will be an error from the register.RegisterRestArgs if it\n"
    \o "// failed to register the rest arguments.\n"
    \o "//\n"
    \o "// A usage may be set by passing a cli.Usage.\n"
    \o "//\n"
    \o "//   _ = cli.RestStringsVar(register, &p, \"names\", cli.Usage(\"Names of users\"))\n"
    \o "func RestStringsVar(register Register, p *[]string, name string, options ...RestOptionApplyer) error {\n"
    \o "\treturn RestVar(register, newStringValues(p), name, options...)\n"
    \o "}\n"
    \o "\n"
    \o "// RestStrings defines the []string rest arguments with specified name.\n"
    \o "// The return value is the address of a []string variable that stores values of arguments.\n"
    \o "//\n"
    \o "// A usage may be set by passing a cli.Usage.\n"
    \o "//\n"
    \o "//   _ = cli.RestStrings(register, \"names\", cli.Usage(\"Names of users\"))\n"
    \o "func RestStrings(register Register, name string, options ...RestOptionApplyer) *[]string {\n"
    \o "\tp := new([]string)\n"
    \o "\t_ = RestStringsVar(register, p, name, options...)\n"
    \o "\treturn p\n"
    \o "}\n"

\* The index of the first line of the comment block that ends right above
\* line j of L.
DocStart(L, j) ==
    LET above == { m \in 1..(j - 1) : ~IsCommentLine(L[m]) }
    IN 1 + CHOOSE m \in above : \A n \in above : n <= m

\* C6: from the header on, line 1 is the marker comment, line 3 the
\* package clause and line 5 opens the import block; once the block is
\* closed, its closing line follows the import lines and every function
\* definition comes after it, right below a comment block that starts,
\* after a blank line, with the documentation of that very function; for
\* the catalog [(string, String)] and the imports [pkgA] the text written is
\* exactly EndToEndText.
C6_Layout ==
    LET L == Lines(res)
        close == 6 + Len(imports)
    IN /\ pc # "header" =>
            SubSeq(L, 1, 5) = << "// Code generated by generate_rest.py; DO NOT EDIT.",
                                 "", "package cli", "", "import (" >>
       /\ pc \notin {"header", "imports"} =>
            /\ L[close] = ")"
            /\ \A j \in FuncLineIdx(L) :
                 /\ j > close
                 /\ IsCommentLine(L[j - 1])
                 /\ L[DocStart(L, j) - 1] = ""
                 /\ StartsWith(L[DocStart(L, j)], "// " \o FuncName(L[j]) \o " defines the []")
       /\ (/\ pc = "done"
           /\ imports = <<"pkgA">>
           /\ Len(types) = 1
           /\ types[1][1] = "string"
           /\ types[1][2] = "String") =>
            /\ written = <<EndToEndText>>
            /\ FuncNames(written[1]) = <<"RestStringsVar", "RestStrings">>

\* C6 witness: the end-to-end scenario has run to its end.
C6_Witness ==
    /\ pc = "done"
    /\ imports = <<"pkgA">>
    /\ types = << <<"string", "String", "x", "x">> >>
    /\ Cardinality(FuncLineIdx(Lines(res))) = 2

(***************************************************************************)
(* C7 - delegation shape.                                                  *)
(***************************************************************************)

\* C7: for the k-th entry (T, N) gone through, the (2k-1)-th function
\* definition is Rest<N>sVar, whose body is the single statement returning
\* RestVar(register, new<N>Values(p), name, options...), and the 2k-th is
\* Rest<N>s, whose body allocates a []T, calls Rest<N>sVar with register,
\* that pointer, name and options, assigns the result to _, and returns
\* the pointer.
C7_DelegationShape ==
    LET L == Lines(res)
        defs == SortedSeq(FuncLineIdx(L))
    IN /\ Len(defs) = 2 * Len(Processed)
       /\ \A k \in 1..Len(Processed) :
            LET T == Processed[k][1]
                N == Processed[k][2]
                v == defs[2 * k - 1]
                c == defs[2 * k]
            IN /\ SubSeq(L, v, v + 2) =
                    << "func Rest" \o N \o "sVar(register Register, p *[]" \o T
                          \o ", name string, options ...RestOptionApplyer) error {",
                       "\treturn RestVar(register, new" \o N \o "Values(p), name, options...)",
                       "}" >>
               /\ SubSeq(L, c, c + 4) =
                    << "func Rest" \o N \o "s(register Register, name string, "
                          \o "options ...RestOptionApplyer) *[]" \o T \o " {",
                       "\tp := new([]" \o T \o ")",
                       "\t_ = Rest" \o N \o "sVar(register, p, name, options...)",
                       "\treturn p",
                       "}" >>

\* C7 witness: a finished run over two entries of different element types.
C7_Witness ==
    /\ pc = "done"
    /\ Len(types) = 2
    /\ types[1][1] # types[2][1]
    /\ Count("\treturn RestVar(register, new", res) = 2
    /\ Count("\t_ = Rest", res) = 2

(***************************************************************************)
(* C8 - determinism.                                                       *)
(***************************************************************************)

RECURSIVE ImportsText(_)
ImportsText(imps) ==
    IF imps = <<>> THEN ""
    ELSE ImportLine(Head(imps)) \o ImportsText(Tail(imps))

RECURSIVE TypesText(_)
TypesText(cat) ==
    IF cat = <<>> THEN ""
    ELSE TypeFragment(Head(cat)) \o TypesText(Tail(cat))

\* generate(catalog, imports): the text as a function of the two inputs.
Generate(cat, imps) ==
    HeaderText \o ImportsText(imps) \o ImportClose \o TypesText(cat)

\* C8: whatever the run, the text it ends with and the text it writes are
\* the value at (types, imports) of one function of the catalog and the
\* import list; two runs on the same inputs therefore produce the same
\* text, and nothing but the inputs has an influence on it.
C8_Deterministic ==
    /\ Finished => res = Generate(types, imports)
    /\ pc = "done" => written = <<Generate(types, imports)>>

\* C8 witness: a finished run over two entries and two different imports.
C8_Witness ==
    /\ pc = "done"
    /\ Len(types) = 2
    /\ Len(imports) = 2
    /\ imports[1] # imports[2]
    /\ written[1] = Generate(types, imports)

(***************************************************************************)
(* C9 - totality.                                                          *)
(***************************************************************************)

\* Every catalog entry has the four fields the loop unpacks.
FourFields == \A k \in 1..Len(types) : Len(types[k]) = 4

C10_FragmentLocal ==
    /\ [][(pc = "types" /\ it' = it + 1) =>
            LET d == types[it]
                appended == SubSeq(res', Len(res) + 1, Len(res'))
            IN /\ IsPrefix(res, res')
               /\ \A a, b \in Extras :
                    appended = TypeFragment(<<d[1], d[2], a, b>>)
               /\ \A e \in Descriptors4 :
                    (e[1] = d[1] /\ e[2] = d[2]) => appended = TypeFragment(e)
               /\ IsPrefix("\n// []" \o d[1] \o "\n\n", appended)]_vars
    /\ [](Finished =>
            \A k \in 0..Len(types) :
                res = Generate(SubSeq(types, 1, k), imports)
                        \o TypesText(SubSeq(types, k + 1, Len(types))))

\* C10 witness: a finished run over two entries whose ignored fields differ.
C10_Witness ==
    /\ pc = "done"
    /\ Len(types) = 2
    /\ types[1][3] # types[2][3]
    /\ Count("\n// []" \o types[2][1] \o "\n\n", res) >= 1

====
